---------------------------- MODULE Spec2Model ----------------------------
(***************************************************************************)
(* Model of ssl_certificate_builder (src/src/ssl_certificate_builder/      *)
(* __main__.py): the certificate descriptor, the config-file template, the *)
(* openssl command-line builder, the per-certificate builder and the batch *)
(* driver.                                                                 *)
(*                                                                         *)
(* A Python string is modelled as a sequence of atoms (TLA+ strings), so   *)
(* that concatenation is \o and "the text contains x" is membership of an  *)
(* atom.  The path separator "/" is always an atom of its own.  A text     *)
(* file is the sequence of its lines, each line a string.                  *)
(***************************************************************************)
EXTENDS Integers, Sequences, FiniteSets, TLC

(* ------------------------------ bounds -------------------------------- *)

\* sys.argv[1:] holds at most MaxSources description files
MaxSources == 2
\* a description file holds at most MaxItems entries
MaxItems == 2
\* a descriptor lists at most MaxAltNames subject alternative names
MaxAltNames == 2
\* a call of OpenSSL passes at most MaxArgs positional arguments, MaxArgs
\* flags and MaxArgs options with values
MaxArgs == 2

(* --------------------------- Python values ---------------------------- *)

\* Python's None, kept apart from every string by an atom no input contains
None == <<"<None>">>

\* the empty string
Empty == <<>>

\* bool(v) of a string, list or None
Truthy(v) == v # Empty /\ v # None

\* str(v) of a string or None, as "%s" % v computes it
Str(v) == IF v = None THEN <<"None">> ELSE v

\* str(n) of an int
IntStr(n) == <<ToString(n)>>

\* s[-1]
Last(s) == s[Len(s)]

\* the elements of a string or list
Range(s) == {s[i] : i \in DOMAIN s}

(* ------------------------------ os.path ------------------------------- *)

curdir == <<".">>

\* the index of the last "/" of p, 0 when it has none
RECURSIVE LastSep(_)
LastSep(p) ==
    IF p = <<>> THEN 0
    ELSE IF Last(p) = "/" THEN Len(p)
    ELSE LastSep(SubSeq(p, 1, Len(p) - 1))

\* p.rstrip('/')
RECURSIVE RStripSep(_)
RStripSep(p) ==
    IF p # <<>> /\ Last(p) = "/" THEN RStripSep(SubSeq(p, 1, Len(p) - 1))
    ELSE p

\* posixpath.dirname
dirname(p) ==
    LET head == SubSeq(p, 1, LastSep(p))
    IN  IF head # <<>> /\ RStripSep(head) # <<>> THEN RStripSep(head) ELSE head

\* posixpath.join(a, b)
join(a, b) ==
    IF b # <<>> /\ Head(b) = "/" THEN b
    ELSE IF a = <<>> \/ Last(a) = "/" THEN a \o b
    ELSE a \o <<"/">> \o b

(* -------------------------- CertificateInfo --------------------------- *)

DEFAULT_KEY_SIZE == 2048
DEFAULT_EXPIRATION_DAYS == 10000

CERTIFICATE_EXT == <<"cert">>
PRIVATE_KEY_EXT == <<"key">>
CERT_REQUEST_EXT == <<"csr">>
CONFIG_EXT == <<"cnf">>

\* CertificateInfo._filename: "%s.%s" % (self.basename, ext)
filename(cert_info, ext) == Str(cert_info.basename) \o <<".">> \o ext

certificate_name(cert_info) == filename(cert_info, CERTIFICATE_EXT)
private_key_name(cert_info) == filename(cert_info, PRIVATE_KEY_EXT)
certificate_request_name(cert_info) == filename(cert_info, CERT_REQUEST_EXT)
config_file_name(cert_info) == filename(cert_info, CONFIG_EXT)

\* the names of the six subject fields, in the template's order
SubjectKeys == <<"C", "ST", "L", "O", "OU", "CN">>

\* SubjectLine, were the line emitted without the {% if %} around it
SubjectLine_Unconditional(key, value) == <<key, "=">> \o Str(value)

\* one line of [req_distinguished_name]:
\*   {% if cert_info.X %}X={{ cert_info.X }}{% endif %}
SubjectLine(key, value) ==
    IF Truthy(value) THEN <<key, "=">> \o Str(value) ELSE Empty

\* the six lines that follow the [req_distinguished_name] header
SubjectLines(cert_info) ==
    [i \in 1..Len(SubjectKeys) |->
        SubjectLine(SubjectKeys[i], cert_info[SubjectKeys[i]])]

\* ExtensionLines, were the {%- else -%} missing: the non-CA lines follow in
\* every config
ExtensionLines_NoElse(cert_info) ==
    (IF cert_info.is_ca
     THEN << <<"basicConstraints=CA:true">>,
             <<"subjectKeyIdentifier=hash">>,
             <<"authorityKeyIdentifier=keyid:always, issuer">> >>
     ELSE <<>>)
    \o << <<"basicConstraints=CA:false">>,
           <<"keyUsage=digitalSignature, nonRepudiation, keyEncipherment">> >>

\* the lines of [v3_extensions]: {% if cert_info.is_ca -%} ... {%- endif %}
ExtensionLines(cert_info) ==
    IF cert_info.is_ca
    THEN << <<"basicConstraints=CA:true">>,
            <<"subjectKeyIdentifier=hash">>,
            <<"authorityKeyIdentifier=keyid:always, issuer">> >>
    ELSE << <<"basicConstraints=CA:false">>,
            <<"keyUsage=digitalSignature, nonRepudiation, keyEncipherment">> >>

\* AltNameLine, were the names numbered from 0 (loop.index0)
AltNameLine_Index0(index, alt_name) ==
    <<"DNS.", ToString(index - 1), "=">> \o Str(alt_name)

\* DNS.{{ loop.index }}={{ alt_name }}
AltNameLine(index, alt_name) ==
    <<"DNS.", ToString(index), "=">> \o Str(alt_name)

\* {% if cert_info.subject_alt_names -%} ... {%- endif %}
AltNameLines(cert_info) ==
    IF Truthy(cert_info.subject_alt_names)
    THEN << <<"subjectAltName=@alt_names">>, Empty, <<"[alt_names]">> >>
         \o [i \in 1..Len(cert_info.subject_alt_names) |->
                AltNameLine(i, cert_info.subject_alt_names[i])]
    ELSE <<>>

\* CertificateInfo.get_config_file: the rendered CONFIG_FILE_TEMPLATE
get_config_file(cert_info) ==
    << <<"extensions=v3_extensions">>,
       Empty,
       <<"[req]">>,
       <<"req_extensions=v3_extensions">>,
       <<"x509_extensions=v3_extensions">>,
       <<"distinguished_name=req_distinguished_name">>,
       <<"prompt=no">>,
       Empty,
       <<"[req_distinguished_name]">> >>
    \o SubjectLines(cert_info)
    \o << Empty, <<"[v3_extensions]">> >>
    \o ExtensionLines(cert_info)
    \o AltNameLines(cert_info)

(* ------------------ CertificateInfo construction ---------------------- *)

\* f with key k set to v (a dict or kwargs assignment)
Put(f, k, v) == [x \in DOMAIN f \cup {k} |-> IF x = k THEN v ELSE f[x]]

\* kwargs.get(k, default)
Get(kwargs, k, default) == IF k \in DOMAIN kwargs THEN kwargs[k] ELSE default

\* the keyword parameters of CertificateInfo.__init__ ("_" and "-" are atoms
\* of their own in a key, so that key.replace acts on them)
InitParams ==
    { <<"basename">>, <<"C">>, <<"ST">>, <<"L">>, <<"O">>, <<"OU">>, <<"CN">>,
      <<"subject", "_", "alt", "_", "names">>, <<"is", "_", "ca">>, <<"ca">>, <<"key", "_", "size">>,
      <<"expiration", "_", "days">>, <<"use", "_", "password">> }

\* whether cls(**kwargs) binds: basename is required, no unknown keyword
InitAccepts(kwargs) ==
    <<"basename">> \in DOMAIN kwargs /\ DOMAIN kwargs \subseteq InitParams

\* CertificateInfo.__init__, called with the keywords kwargs
CertificateInfo(kwargs) ==
    [basename          |-> kwargs[<<"basename">>],
     C                 |-> Get(kwargs, <<"C">>, Empty),
     ST                |-> Get(kwargs, <<"ST">>, Empty),
     L                 |-> Get(kwargs, <<"L">>, Empty),
     O                 |-> Get(kwargs, <<"O">>, Empty),
     OU                |-> Get(kwargs, <<"OU">>, Empty),
     CN                |-> Get(kwargs, <<"CN">>, Empty),
     subject_alt_names |-> Get(kwargs, <<"subject", "_", "alt", "_", "names">>, None),
     is_ca             |-> Get(kwargs, <<"is", "_", "ca">>, FALSE),
     ca                |-> Get(kwargs, <<"ca">>, None),
     key_size          |-> Get(kwargs, <<"key", "_", "size">>, DEFAULT_KEY_SIZE),
     expiration_days   |-> Get(kwargs, <<"expiration", "_", "days">>,
                               DEFAULT_EXPIRATION_DAYS),
     use_password      |-> Get(kwargs, <<"use", "_", "password">>, FALSE)]

\* key.replace('-', '_'); a key is the sequence of its characters' groups,
\* "-" and "_" atoms of their own
replace_dash(key) ==
    [i \in DOMAIN key |-> IF key[i] = "-" THEN "_" ELSE key[i]]

\* the loop of from_dict over dict.items(): a dict is the sequence of its
\* <<key, value>> pairs in insertion order
RECURSIVE from_dict_kwargs(_, _)
from_dict_kwargs(items, kwargs) ==
    IF items = <<>> THEN kwargs
    ELSE LET key   == Head(items)[1]
             value == Head(items)[2]
         IN  from_dict_kwargs(
                 Tail(items),
                 IF key = <<"type">>
                 THEN Put(kwargs, <<"is", "_", "ca">>, value = <<"ca">>)
                 ELSE Put(kwargs, replace_dash(key), value))

\* the kwargs CertificateInfo.from_dict passes to cls
from_dict_args(dict) == from_dict_kwargs(dict, (<<"is", "_", "ca">> :> FALSE))

\* CertificateInfo.from_dict (defined when InitAccepts(from_dict_args(dict)))
from_dict(dict) == CertificateInfo(from_dict_args(dict))

(* ------------------------------ OpenSSL ------------------------------- *)

DEFAULT_OPENSSL == <<"openssl">>

\* a Python value handed to OpenSSL: a str or an int, each with its type
PyStr(s) == <<"str", s>>
PyInt(n) == <<"int", n>>

\* str(v) of a str or an int
str(v) == IF v[1] = "int" THEN IntStr(v[2]) ELSE v[2]

\* "-%s" % opt
Dash(opt) == PyStr(<<"-">> \o str(opt))

\* itertools.chain.from_iterable(("-%s" % opt, value) for opt, value in
\* opts_with_values.items()); the keyword arguments are the sequence of
\* their <<name, value>> pairs in call order, a name a string
RECURSIVE OptionPairs(_)
OptionPairs(opts_with_values) ==
    IF opts_with_values = <<>> THEN <<>>
    ELSE <<Dash(PyStr(Head(opts_with_values)[1])), Head(opts_with_values)[2]>>
         \o OptionPairs(Tail(opts_with_values))

\* build_openssl_commandline, were the positional arguments left after the
\* sub-command placed before the flags and options
build_openssl_commandline_PositionalsFirst(pos_args, opts, opts_with_values) ==
    LET args == <<PyStr(DEFAULT_OPENSSL)>>
                \o pos_args
                \o [i \in DOMAIN opts |-> Dash(opts[i])]
                \o OptionPairs(opts_with_values)
    IN  [i \in DOMAIN args |-> str(args[i])]

\* OpenSSL.build_openssl_commandline
build_openssl_commandline(pos_args, opts, opts_with_values) ==
    LET args == <<PyStr(DEFAULT_OPENSSL)>>
                \o (IF Len(pos_args) > 0 THEN <<Head(pos_args)>> ELSE <<>>)
                \o [i \in DOMAIN opts |-> Dash(opts[i])]
                \o OptionPairs(opts_with_values)
                \o (IF Len(pos_args) > 0 THEN Tail(pos_args) ELSE <<>>)
    IN  [i \in DOMAIN args |-> str(args[i])]

\* the arguments of one OpenSSL.__call__
Call(pos_args, opts, opts_with_values) ==
    [pos_args |-> pos_args, opts |-> opts, opts_with_values |-> opts_with_values]

\* before any call
NoCall == Call(<<>>, <<>>, <<>>)

\* whether the command line holds the flag or option -opt
HasOpt(cmd, opt) == \E i \in DOMAIN cmd : cmd[i] = <<"-">> \o opt

\* the value that follows -opt on the command line
OptValue(cmd, opt) ==
    cmd[(CHOOSE i \in DOMAIN cmd : cmd[i] = <<"-">> \o opt) + 1]

(* ------------------------ CertificateBuilder -------------------------- *)

\* path, were the name used as it is, relative to the working directory
path_Unjoined(base_dir, name) == name

\* CertificateBuilder._path
path(base_dir, name) == join(base_dir, name)

\* 'pass:%s' % self.key_password
PassArg(key_password) == <<"pass:">> \o Str(key_password)

\* PrivateKeyArgs, were the cipher never requested
PrivateKeyArgs_NoCipher(cert_info, base_dir, key_password) ==
    Call(<< PyStr(<<"genrsa">>), PyInt(cert_info.key_size) >>,
         <<>>,
         << << <<"out">>, PyStr(path(base_dir, private_key_name(cert_info))) >>,
            << <<"passout">>, PyStr(PassArg(key_password)) >> >>)

\* the call of generate_private_key
PrivateKeyArgs(cert_info, base_dir, key_password) ==
    Call(<< PyStr(<<"genrsa">>), PyInt(cert_info.key_size) >>,
         IF cert_info.use_password THEN << PyStr(<<"aes256">>) >> ELSE <<>>,
         << << <<"out">>, PyStr(path(base_dir, private_key_name(cert_info))) >>,
            << <<"passout">>, PyStr(PassArg(key_password)) >> >>)

\* the call of generate_certificate_request
CertificateRequestArgs(cert_info, base_dir, key_password) ==
    Call(<< PyStr(<<"req">>) >>,
         << PyStr(<<"new">>), PyStr(<<"sha512">>) >>,
         << << <<"out">>,
               PyStr(path(base_dir, certificate_request_name(cert_info))) >>,
            << <<"key">>, PyStr(path(base_dir, private_key_name(cert_info))) >>,
            << <<"config">>, PyStr(path(base_dir, config_file_name(cert_info))) >>,
            << <<"passin">>, PyStr(PassArg(key_password)) >> >>)

\* the call of generate_self_signed_certificate
SelfSignedArgs(cert_info, base_dir, key_password) ==
    Call(<< PyStr(<<"req">>) >>,
         << PyStr(<<"x509">>), PyStr(<<"new">>), PyStr(<<"sha512">>),
            PyStr(<<"nodes">>) >>,
         << << <<"key">>, PyStr(path(base_dir, private_key_name(cert_info))) >>,
            << <<"out">>, PyStr(path(base_dir, certificate_name(cert_info))) >>,
            << <<"days">>, PyInt(cert_info.expiration_days) >>,
            << <<"config">>, PyStr(path(base_dir, config_file_name(cert_info))) >>,
            << <<"passin">>, PyStr(PassArg(key_password)) >> >>)

\* CASignedArgs, were the authority's files named without the base directory
CASignedArgs_AuthorityUnjoined(cert_info, base_dir) ==
    Call(<< PyStr(<<"x509">>) >>,
         << PyStr(<<"req">>), PyStr(<<"CAcreateserial">>) >>,
         << << <<"CA">>,
               PyStr(Str(cert_info.ca) \o <<".">> \o CERTIFICATE_EXT) >>,
            << <<"CAkey">>,
               PyStr(Str(cert_info.ca) \o <<".">> \o PRIVATE_KEY_EXT) >>,
            << <<"out">>, PyStr(path(base_dir, certificate_name(cert_info))) >>,
            << <<"extfile">>, PyStr(path(base_dir, config_file_name(cert_info))) >>,
            << <<"days">>, PyInt(cert_info.expiration_days) >>,
            << <<"in">>,
               PyStr(path(base_dir, certificate_request_name(cert_info))) >> >>)

\* the call of generate_ca_signed_certificate
CASignedArgs(cert_info, base_dir) ==
    Call(<< PyStr(<<"x509">>) >>,
         << PyStr(<<"req">>), PyStr(<<"CAcreateserial">>) >>,
         << << <<"CA">>,
               PyStr(path(base_dir,
                          Str(cert_info.ca) \o <<".">> \o CERTIFICATE_EXT)) >>,
            << <<"CAkey">>,
               PyStr(path(base_dir,
                          Str(cert_info.ca) \o <<".">> \o PRIVATE_KEY_EXT)) >>,
            << <<"out">>, PyStr(path(base_dir, certificate_name(cert_info))) >>,
            << <<"extfile">>, PyStr(path(base_dir, config_file_name(cert_info))) >>,
            << <<"days">>, PyInt(cert_info.expiration_days) >>,
            << <<"in">>,
               PyStr(path(base_dir, certificate_request_name(cert_info))) >> >>)

(* ------------------------------ inputs -------------------------------- *)

\* the description files argv may name
SourcePaths == { <<"certs.yaml">>, <<"bar", "/", "desc.yaml">> }

\* sys.argv[1:]
Argvs == UNION {[1..n -> SourcePaths] : n \in 0..MaxSources}

\* one <<key, value>> pair of an entry when present, no pair otherwise
Opt(present, key, value) == IF present THEN << <<key, value>> >> ELSE <<>>

\* the entries of a description file: every combination of signing authority,
\* password protection and type for basename c1, the CA entries with a common
\* name; an entry with an absolute basename, a type other than "ca" and a
\* dashed key; an entry without basename
Entries ==
    { << <<<<"basename">>, <<"c1">> >> >>
      \o Opt(ty, <<"type">>, <<"ca">>)
      \o Opt(ty, <<"CN">>, <<"root">>)
      \o Opt(ca, <<"ca">>, <<"ca">>)
      \o Opt(pw, <<"use", "_", "password">>, TRUE)
      : ty \in BOOLEAN, ca \in BOOLEAN, pw \in BOOLEAN }
    \cup { << <<<<"basename">>, <<"/", "abs", "/", "c1">> >>,
              <<<<"type">>, <<"server">> >>,
              <<<<"C">>, <<"DE">> >>,
              <<<<"key", "-", "size">>, 4096>> >>,
           << <<<<"CN">>, <<"nobase">> >> >> }

\* the lengths of the document yaml.load returns for a file that parses; the
\* content of an item is drawn from Entries when get_cert_infos reaches it
DocumentLengths == 0..MaxItems

\* what the user types at the password prompt
Passwords == { <<"hunter2">>, <<"s3cret">> }

(* ------------------------------- state -------------------------------- *)

VARIABLES
    argv,         \* sys.argv[1:]
    nfile,        \* get_cert_infos: the number of files opened so far
    pending,      \* get_cert_infos: the number of items of the open document
                  \* not yet yielded
    basedir,      \* get_cert_infos: os.path.dirname of the open file
    nitem,        \* the index in its document of the item last yielded
    item,         \* get_cert_infos: the item last taken from the document
    lengths,      \* the lengths of the documents loaded so far, in order
    pc,           \* main: "loop" (at the for statement), "run" (in
                  \* generate_full_certificate), "exit" (returned), "raised"
    cert_info,    \* CertificateBuilder.cert_info
    base_dir,     \* CertificateBuilder.base_dir
    key_password, \* CertificateBuilder.key_password
    state,        \* the run's state: Idle, Init, ConfigWritten, KeyGenerated,
                  \* RequestGenerated, Done, Failed
    attempts,     \* the steps this run has begun, in order
    steps,        \* the steps this run has completed, in order
    cmds,         \* the command lines this run has passed to subprocess.check_call
    call,         \* OpenSSL.__call__: the arguments of the run's last call
    written,      \* path -> content, for the files this run has written or had
                  \* openssl write
    files,        \* the paths of the files the process has left on disk
    printed,      \* the strings the process has printed
    started,      \* the <<file, item>> positions whose run has started, in order
    error         \* the exception that ended the process, "" when none

vars == <<argv, nfile, pending, basedir, nitem, item, lengths, pc, cert_info, base_dir,
          key_password, state, attempts, steps, cmds, call, written, files,
          printed, started, error>>

driver == <<argv, nfile, pending, basedir, nitem, item, lengths, started>>
builder == <<cert_info, base_dir>>

\* a builder's cert_info before any descriptor was yielded
NoCertInfo == CertificateInfo((<<"basename">> :> None))

\* no file written yet
NoFiles == [p \in {} |-> <<>>]

Init ==
    /\ argv \in Argvs
    /\ nfile = 0
    /\ pending = 0
    /\ basedir = Empty
    /\ nitem = 0
    /\ item = <<>>
    /\ lengths = <<>>
    /\ pc = "loop"
    /\ cert_info = NoCertInfo
    /\ base_dir = curdir
    /\ key_password = None
    /\ state = "Idle"
    /\ attempts = <<>>
    /\ steps = <<>>
    /\ cmds = <<>>
    /\ call = NoCall
    /\ written = NoFiles
    /\ files = {}
    /\ printed = {}
    /\ started = <<>>
    /\ error = ""

(* --------------------------- get_cert_infos --------------------------- *)

\* Raise, were the exception caught in the loop of generate_certificates
Raise_Swallowed(kind) ==
    /\ pc' = "loop"
    /\ error' = kind

\* an uncaught exception: it leaves generate_certificates and main
Raise(kind) ==
    /\ pc' = "raised"
    /\ error' = kind

\* OpenSource, were the next file opened while items of the open document
\* are still to be yielded
OpenSource_SkipRest ==
    /\ pc = "loop"
    /\ nfile < Len(argv)
    /\ nfile' = nfile + 1
    /\ nitem' = 0
    /\ \/ \E length \in DocumentLengths :
            /\ pending' = length
            /\ lengths' = Append(lengths, length)
            /\ basedir' = dirname(argv[nfile + 1])
            /\ UNCHANGED <<pc, error>>
       \/ \E kind \in {"IOError", "YAMLError"} :
            /\ Raise(kind)
            /\ UNCHANGED <<pending, lengths, basedir>>
    /\ UNCHANGED <<argv, started, item, builder, key_password, state, attempts, steps,
                   cmds, call, written, files, printed>>

\* OpenSource, were every file loaded before the descriptors are generated
\* (the documents read eagerly: a file is opened while items of the files
\* before it are still to be yielded)
OpenSource_Eager ==
    /\ pc = "loop"
    /\ nfile < Len(argv)
    /\ nfile' = nfile + 1
    /\ UNCHANGED nitem
    /\ \/ \E length \in DocumentLengths :
            /\ pending' = IF pending + length > MaxItems THEN MaxItems
                          ELSE pending + length
            /\ lengths' = Append(lengths, length)
            /\ basedir' = dirname(argv[nfile + 1])
            /\ UNCHANGED <<pc, error>>
       \/ \E kind \in {"IOError", "YAMLError"} :
            /\ Raise(kind)
            /\ UNCHANGED <<pending, lengths, basedir>>
    /\ UNCHANGED <<argv, started, item, builder, key_password, state, attempts,
                   steps, cmds, call, written, files, printed>>

\* OpenSource, were a file that does not load reported and skipped
OpenSource_SkipUnparsable ==
    /\ pc = "loop"
    /\ pending = 0
    /\ nfile < Len(argv)
    /\ nfile' = nfile + 1
    /\ nitem' = 0
    /\ \/ \E length \in DocumentLengths :
            /\ pending' = length
            /\ lengths' = Append(lengths, length)
            /\ basedir' = dirname(argv[nfile + 1])
            /\ UNCHANGED <<pc, error>>
       \/ \E kind \in {"IOError", "YAMLError"} :
            /\ error' = kind
            /\ lengths' = Append(lengths, 0)
            /\ UNCHANGED <<pc, pending, basedir>>
    /\ UNCHANGED <<argv, started, item, builder, key_password, state, attempts, steps,
                   cmds, call, written, files, printed>>

\* get_cert_infos opens and parses the next file of argv
OpenSource ==
    /\ pc = "loop"
    /\ pending = 0
    /\ nfile < Len(argv)
    /\ nfile' = nfile + 1
    /\ nitem' = 0
    /\ \/ \E length \in DocumentLengths :
            /\ pending' = length
            /\ lengths' = Append(lengths, length)
            /\ basedir' = dirname(argv[nfile + 1])
            /\ UNCHANGED <<pc, error>>
       \/ \E kind \in {"IOError", "YAMLError"} :
            /\ Raise(kind)
            /\ UNCHANGED <<pending, lengths, basedir>>
    /\ UNCHANGED <<argv, started, item, builder, key_password, state, attempts, steps,
                   cmds, call, written, files, printed>>

\* YieldItem, were one CertificateBuilder used for every descriptor, its
\* key_password kept from run to run
YieldItem_KeepPassword(dict) ==
    /\ pc = "loop"
    /\ pending > 0
    /\ pending' = pending - 1
    /\ nitem' = nitem + 1
    /\ item' = dict
    /\ IF InitAccepts(from_dict_args(dict))
       THEN /\ cert_info' = from_dict(dict)
            /\ base_dir' = IF Truthy(basedir) THEN basedir ELSE curdir
            /\ UNCHANGED key_password
            /\ state' = "Init"
            /\ attempts' = <<>>
            /\ steps' = <<>>
            /\ cmds' = <<>>
            /\ call' = NoCall
            /\ written' = NoFiles
            /\ started' = Append(started, <<nfile, nitem + 1>>)
            /\ pc' = "run"
            /\ UNCHANGED error
       ELSE /\ Raise("TypeError")
            /\ UNCHANGED <<builder, key_password, state, attempts, steps, cmds, call,
                           written, started>>
    /\ UNCHANGED <<argv, nfile, basedir, lengths, files, printed>>

\* get_cert_infos takes the next item, dict, from the document and yields its
\* descriptor, and generate_certificates constructs its CertificateBuilder
YieldItem(dict) ==
    /\ pc = "loop"
    /\ pending > 0
    /\ pending' = pending - 1
    /\ nitem' = nitem + 1
    /\ item' = dict
    /\ IF InitAccepts(from_dict_args(dict))
       THEN /\ cert_info' = from_dict(dict)
            /\ base_dir' = IF Truthy(basedir) THEN basedir ELSE curdir
            /\ key_password' = None
            /\ state' = "Init"
            /\ attempts' = <<>>
            /\ steps' = <<>>
            /\ cmds' = <<>>
            /\ call' = NoCall
            /\ written' = NoFiles
            /\ started' = Append(started, <<nfile, nitem + 1>>)
            /\ pc' = "run"
            /\ UNCHANGED error
       ELSE /\ Raise("TypeError")
            /\ UNCHANGED <<builder, key_password, state, attempts, steps, cmds, call,
                           written, started>>
    /\ UNCHANGED <<argv, nfile, basedir, lengths, files, printed>>

\* the next item of the open document is one of Entries
NextCertInfo == \E dict \in Entries : YieldItem(dict)

\* get_cert_infos is exhausted: generate_certificates and main return
MainReturn ==
    /\ pc = "loop"
    /\ pending = 0
    /\ nfile = Len(argv)
    /\ pc' = "exit"
    /\ UNCHANGED <<driver, builder, key_password, state, attempts, steps, cmds, call,
                   written, files, printed, error>>

(* ------------------------ the builder's steps ------------------------- *)

\* Fail, were the files of the run removed when a step fails
Fail_Cleanup(kind) ==
    /\ state' = "Failed"
    /\ Raise(kind)
    /\ files' = files \ DOMAIN written
    /\ written' = NoFiles
    /\ UNCHANGED steps

\* a step of the run fails: the exception leaves generate_full_certificate
Fail(kind) ==
    /\ state' = "Failed"
    /\ Raise(kind)
    /\ UNCHANGED <<steps, written, files>>

\* the file openssl writes for a command line that succeeds
ToolOutput(cmd) ==
    [pem |-> IF cmd[2] = <<"genrsa">> THEN "RSA PRIVATE KEY"
             ELSE IF cmd[2] = <<"req">> /\ ~HasOpt(cmd, <<"x509">>)
                  THEN "CERTIFICATE REQUEST"
                  ELSE "CERTIFICATE",
     encrypted |-> cmd[2] = <<"genrsa">> /\ HasOpt(cmd, <<"aes256">>),
     text |-> <<>>]

\* OpenSSL.__call__ for one step of the run: the command line is built and
\* passed to subprocess.check_call
OpenSSLCall(args, step, next) ==
    LET cmd == build_openssl_commandline(args.pos_args, args.opts,
                                         args.opts_with_values)
    IN
    /\ call' = args
    /\ attempts' = Append(attempts, step)
    /\ cmds' = Append(cmds, cmd)
    /\ \/ /\ written' = Put(written, OptValue(cmd, <<"out">>), ToolOutput(cmd))
          /\ files' = files \cup {OptValue(cmd, <<"out">>)}
          /\ steps' = Append(steps, step)
          /\ state' = next
          /\ pc' = IF next = "Done" THEN "loop" ELSE pc
          /\ UNCHANGED error
       \/ Fail("CalledProcessError")

\* ReadPassword, were the line read echoed to the output
ReadPassword_Echo ==
    /\ pc = "run"
    /\ state = "Init"
    /\ cert_info.use_password
    /\ attempts = <<>>
    /\ attempts' = <<"Password">>
    /\ \E isatty \in BOOLEAN :
          \/ \E line \in Passwords :
                /\ printed' = printed \cup {<<"Password:", " ">>, line}
                /\ key_password' = line
                /\ steps' = <<"Password">>
                /\ UNCHANGED <<pc, state, error, written, files>>
          \/ /\ printed' = printed \cup {<<"Password:", " ">>}
             /\ Fail("EOFError")
             /\ UNCHANGED key_password
    /\ UNCHANGED <<driver, builder, cmds, call>>

\* generate_full_certificate: the password is read when use_password
ReadPassword ==
    /\ pc = "run"
    /\ state = "Init"
    /\ cert_info.use_password
    /\ attempts = <<>>
    /\ attempts' = <<"Password">>
    /\ \E isatty \in BOOLEAN :
          \* getpass.getpass() prompts on the terminal itself; otherwise
          \* print('Password:', end=' ')
          /\ printed' = printed \cup {<<"Password:", " ">>}
          /\ \/ \E line \in Passwords :
                   /\ key_password' = line
                   /\ steps' = <<"Password">>
                   /\ UNCHANGED <<pc, state, error, written, files>>
             \/ /\ Fail("EOFError")
                /\ UNCHANGED key_password
    /\ UNCHANGED <<driver, builder, cmds, call>>

\* GenerateConfigFile, were the config file written without the password
\* having been read first
GenerateConfigFile_BeforePassword ==
    /\ pc = "run"
    /\ state = "Init"
    /\ attempts' = Append(attempts, "Config")
    /\ \/ /\ written' = Put(written, path(base_dir, config_file_name(cert_info)),
                            [pem |-> "", encrypted |-> FALSE,
                             text |-> get_config_file(cert_info)])
          /\ files' = files \cup {path(base_dir, config_file_name(cert_info))}
          /\ steps' = Append(steps, "Config")
          /\ state' = "ConfigWritten"
          /\ UNCHANGED <<pc, error>>
       \/ Fail("IOError")
    /\ UNCHANGED <<driver, builder, key_password, cmds, call, printed>>

\* generate_config_file
GenerateConfigFile ==
    /\ pc = "run"
    /\ state = "Init"
    /\ cert_info.use_password => steps = <<"Password">>
    /\ attempts' = Append(attempts, "Config")
    /\ \/ /\ written' = Put(written, path(base_dir, config_file_name(cert_info)),
                            [pem |-> "", encrypted |-> FALSE,
                             text |-> get_config_file(cert_info)])
          /\ files' = files \cup {path(base_dir, config_file_name(cert_info))}
          /\ steps' = Append(steps, "Config")
          /\ state' = "ConfigWritten"
          /\ UNCHANGED <<pc, error>>
       \/ Fail("IOError")
    /\ UNCHANGED <<driver, builder, key_password, cmds, call, printed>>

\* generate_private_key
GeneratePrivateKey ==
    /\ pc = "run"
    /\ state = "ConfigWritten"
    /\ OpenSSLCall(PrivateKeyArgs(cert_info, base_dir, key_password),
                   "Key", "KeyGenerated")
    /\ UNCHANGED <<driver, builder, key_password, printed>>

\* GenerateSelfSignedCertificate, were the path chosen by is_ca instead of ca
GenerateSelfSigned_ByIsCa ==
    /\ pc = "run"
    /\ state = "KeyGenerated"
    /\ cert_info.is_ca \/ cert_info.ca = None
    /\ OpenSSLCall(SelfSignedArgs(cert_info, base_dir, key_password),
                   "SelfSigned", "Done")
    /\ UNCHANGED <<driver, builder, key_password, printed>>

\* generate_self_signed_certificate, when cert_info.ca is None
GenerateSelfSignedCertificate ==
    /\ pc = "run"
    /\ state = "KeyGenerated"
    /\ cert_info.ca = None
    /\ OpenSSLCall(SelfSignedArgs(cert_info, base_dir, key_password),
                   "SelfSigned", "Done")
    /\ UNCHANGED <<driver, builder, key_password, printed>>

\* generate_certificate_request, when cert_info.ca is not None
GenerateCertificateRequest ==
    /\ pc = "run"
    /\ state = "KeyGenerated"
    /\ cert_info.ca # None
    /\ OpenSSLCall(CertificateRequestArgs(cert_info, base_dir, key_password),
                   "Request", "RequestGenerated")
    /\ UNCHANGED <<driver, builder, key_password, printed>>

\* GenerateCASignedCertificate, were the signing invoked right after the key,
\* before the request
GenerateCASigned_BeforeRequest ==
    /\ pc = "run"
    /\ state \in {"KeyGenerated", "RequestGenerated"}
    /\ cert_info.ca # None
    /\ OpenSSLCall(CASignedArgs(cert_info, base_dir), "CASigned", "Done")
    /\ UNCHANGED <<driver, builder, key_password, printed>>

\* generate_ca_signed_certificate
GenerateCASignedCertificate ==
    /\ pc = "run"
    /\ state = "RequestGenerated"
    /\ OpenSSLCall(CASignedArgs(cert_info, base_dir), "CASigned", "Done")
    /\ UNCHANGED <<driver, builder, key_password, printed>>

Next ==
    \/ OpenSource
    \/ NextCertInfo
    \/ MainReturn
    \/ ReadPassword
    \/ GenerateConfigFile
    \/ GeneratePrivateKey
    \/ GenerateSelfSignedCertificate
    \/ GenerateCertificateRequest
    \/ GenerateCASignedCertificate

Spec == Init /\ [][Next]_vars

(* ---------------- rendering one descriptor's config file -------------- *)

\* the value a subject field takes when it is given
SubjectValue ==
    [C |-> <<"DE">>, ST |-> <<"state">>, L |-> <<"location">>, O |-> <<"org">>,
     OU |-> <<"org-unit">>, CN |-> <<"common-name">>]

\* the subject alternative names a descriptor may list
AltNames == { <<"alt-1">>, <<"alt-2">> }

\* subject_alt_names: absent, or a list of at most MaxAltNames names
AltNameLists == {None} \cup UNION {[1..n -> AltNames] : n \in 0..MaxAltNames}

\* the descriptors whose config file is rendered: every subset of the subject
\* fields given, CA or not, every list of alternative names
RenderInfos ==
    { [basename |-> <<"c1">>,
       C  |-> IF "C"  \in given THEN SubjectValue.C  ELSE Empty,
       ST |-> IF "ST" \in given THEN SubjectValue.ST ELSE Empty,
       L  |-> IF "L"  \in given THEN SubjectValue.L  ELSE Empty,
       O  |-> IF "O"  \in given THEN SubjectValue.O  ELSE Empty,
       OU |-> IF "OU" \in given THEN SubjectValue.OU ELSE Empty,
       CN |-> IF "CN" \in given THEN SubjectValue.CN ELSE Empty,
       subject_alt_names |-> names, is_ca |-> is_ca, ca |-> None,
       key_size |-> DEFAULT_KEY_SIZE,
       expiration_days |-> DEFAULT_EXPIRATION_DAYS, use_password |-> FALSE]
      : given \in SUBSET Range(SubjectKeys), names \in AltNameLists,
        is_ca \in BOOLEAN }

\* a CertificateBuilder constructed for one descriptor of RenderInfos
InitRender ==
    /\ argv = << <<"certs.yaml">> >>
    /\ nfile = 1
    /\ pending = 0
    /\ basedir = Empty
    /\ nitem = 1
    /\ item = <<>>
    /\ lengths = <<1>>
    /\ pc = "run"
    /\ cert_info \in RenderInfos
    /\ base_dir = curdir
    /\ key_password = None
    /\ state = "Init"
    /\ attempts = <<>>
    /\ steps = <<>>
    /\ cmds = <<>>
    /\ call = NoCall
    /\ written = NoFiles
    /\ files = {}
    /\ printed = {}
    /\ started = << <<1, 1>> >>
    /\ error = ""

\* the builder's first step for a descriptor without password
SpecRender == InitRender /\ [][GenerateConfigFile]_vars

(* ------------------- loading one entry of a document ------------------ *)

\* the ways an entry may give its type and an is_ca key, in either order
TypeItems ==
    LET types == { << <<<<"type">>, t>> >> : t \in { <<"ca">>, <<"server">> } }
        flags == { << <<<<"is", "_", "ca">>, b>> >> : b \in BOOLEAN }
    IN  { <<>> } \cup types \cup flags
        \cup { t \o f : t \in types, f \in flags }
        \cup { f \o t : t \in types, f \in flags }

\* the ways an entry may give its key size: not at all, as key_size, as
\* key-size
KeySizeItems ==
    { <<>>, << <<<<"key", "_", "size">>, 4096>> >>,
      << <<<<"key", "-", "size">>, 1024>> >> }

\* the entries a document may hold: a basename, then every combination of
\* type, is_ca, key size, password protection, signing authority and
\* expiration given or not; an entry without basename; an entry with a key
\* that is no parameter of CertificateInfo
Dicts ==
    { << <<<<"basename">>, <<"c1">> >> >>
      \o ty \o ks
      \o Opt(pw, <<"use", "_", "password">>, TRUE)
      \o Opt(ca, <<"ca">>, <<"ca">>)
      \o Opt(ex, <<"expiration", "_", "days">>, 365)
      : ty \in TypeItems, ks \in KeySizeItems, pw \in BOOLEAN, ca \in BOOLEAN,
        ex \in BOOLEAN }
    \cup { << <<<<"type">>, <<"ca">> >>, <<<<"CN">>, <<"nobase">> >> >>,
           << <<<<"basename">>, <<"c1">> >>, <<<<"colour">>, <<"red">> >> >> }

\* get_cert_infos has loaded a document of one entry from certs.yaml
InitFromDict ==
    /\ argv = << <<"certs.yaml">> >>
    /\ nfile = 1
    /\ pending = 1
    /\ basedir = Empty
    /\ nitem = 0
    /\ item = <<>>
    /\ lengths = <<1>>
    /\ pc = "loop"
    /\ cert_info = NoCertInfo
    /\ base_dir = curdir
    /\ key_password = None
    /\ state = "Idle"
    /\ attempts = <<>>
    /\ steps = <<>>
    /\ cmds = <<>>
    /\ call = NoCall
    /\ written = NoFiles
    /\ files = {}
    /\ printed = {}
    /\ started = <<>>
    /\ error = ""

\* the entry is one of Dicts
LoadEntry == \E dict \in Dicts : YieldItem(dict)

\* CertificateInfo.from_dict applied to one entry
SpecFromDict == InitFromDict /\ [][LoadEntry]_vars

(* --------------------- building one command line ---------------------- *)

\* the positional arguments, the flags and the option values of a call
ArgValues == { PyStr(<<"genrsa">>), PyStr(<<"req">>), PyInt(2048) }
FlagValues == { PyStr(<<"new">>), PyStr(<<"x509">>) }
OptionValues == { PyStr(<<"bar", "/", "c1", ".", "key">>), PyInt(365) }

\* the names of the options with values (keyword arguments: no name twice)
OptionNames == { <<"out">>, <<"days">> }

\* the sequences of at most n elements of S
SeqsUpTo(S, n) == UNION {[1..k -> S] : k \in 0..n}

\* **opts_with_values: pairs <<name, value>> in call order, no name twice
KeywordArgs ==
    { kw \in SeqsUpTo(OptionNames \X OptionValues, MaxArgs) :
        \A i, j \in DOMAIN kw : i # j => kw[i][1] # kw[j][1] }

\* the calls of build_openssl_commandline
CallInputs ==
    { Call(pos_args, opts, kw) :
        pos_args \in SeqsUpTo(ArgValues, MaxArgs),
        opts \in SeqsUpTo(FlagValues, MaxArgs),
        kw \in KeywordArgs }

\* an OpenSSL object about to build the command line of one call
InitCommandLine ==
    /\ argv = <<>>
    /\ nfile = 0
    /\ pending = 0
    /\ basedir = Empty
    /\ nitem = 0
    /\ item = <<>>
    /\ lengths = <<>>
    /\ pc = "loop"
    /\ cert_info = NoCertInfo
    /\ base_dir = curdir
    /\ key_password = None
    /\ state = "Idle"
    /\ attempts = <<>>
    /\ steps = <<>>
    /\ cmds = <<>>
    /\ call \in CallInputs
    /\ written = NoFiles
    /\ files = {}
    /\ printed = {}
    /\ started = <<>>
    /\ error = ""

\* build_openssl_commandline is applied to the call's arguments
BuildCommandLine ==
    /\ cmds = <<>>
    /\ cmds' = << build_openssl_commandline(call.pos_args, call.opts,
                                            call.opts_with_values) >>
    /\ UNCHANGED <<driver, builder, pc, key_password, state, attempts, steps,
                   call, written, files, printed, error>>

\* OpenSSL.build_openssl_commandline applied to one call
SpecCommandLine == InitCommandLine /\ [][BuildCommandLine]_vars


(* ============================== claims ================================ *)

\* s without its "Password" entries: the generation steps proper
GenerationSteps(s) == SelectSeq(s, LAMBDA x : x # "Password")

IsPrefix(s, t) == Len(s) <= Len(t) /\ s = SubSeq(t, 1, Len(s))

\* the steps of a whole run, by whether a signing authority is set
SelfSignedOrder == <<"Config", "Key", "SelfSigned">>
CASignedOrder == <<"Config", "Key", "Request", "CASigned">>

\* the state the spec's state machine is in after n generation steps of a
\* CA-signed run
CAStateAfter == <<"ConfigWritten", "KeyGenerated", "RequestGenerated", "Done">>
SelfSignedStateAfter == <<"ConfigWritten", "KeyGenerated", "Done">>

(* C1: in a run of generate_full_certificate the generation steps complete
   in the order config, key, then self-signed issuance (no signing
   authority) or request followed by CA signing: the steps begun and the
   steps completed are always a prefix of that order (so none runs twice and
   none starts before its predecessor completed), the run's state is the one
   the completed steps lead to, and the run is Done exactly when the whole
   order has completed. *)
C1_StepOrder ==
    state # "Idle" =>
        LET order == IF cert_info.ca = None THEN SelfSignedOrder
                     ELSE CASignedOrder
            after == IF cert_info.ca = None THEN SelfSignedStateAfter
                     ELSE CAStateAfter
            done  == GenerationSteps(steps)
        IN  /\ IsPrefix(done, order)
            /\ IsPrefix(GenerationSteps(attempts), order)
            /\ IsPrefix(done, GenerationSteps(attempts))
            /\ Len(GenerationSteps(attempts)) <= Len(done) + 1
            /\ state = "Done" <=> done = order
            /\ state \notin {"Failed", "Init"} => state = after[Len(done)]
            /\ state = "Init" => done = <<>>

\* a CA-signed run that has completed its four steps
C1_Witness ==
    /\ state = "Done"
    /\ cert_info.ca # None
    /\ GenerationSteps(steps) = CASignedOrder

IsSelfSignedCmd(cmd) == cmd[2] = <<"req">> /\ HasOpt(cmd, <<"x509">>)
IsRequestCmd(cmd) == cmd[2] = <<"req">> /\ ~HasOpt(cmd, <<"x509">>)
IsCASignCmd(cmd) == cmd[2] = <<"x509">>

(* C2: exactly one of the two paths is taken and only ca decides it: a run
   whose descriptor has no signing authority never invokes request
   generation or CA signing, a run whose descriptor has one never invokes
   self-signed issuance, and a run that is Done has invoked self-signed
   issuance once (no authority) or the request and the signing once each
   (authority set), whatever is_ca, use_password and the subject fields. *)
C2_PathByAuthority ==
    LET n(Is(_)) == Cardinality({i \in DOMAIN cmds : Is(cmds[i])})
    IN  /\ cert_info.ca = None => n(IsRequestCmd) = 0 /\ n(IsCASignCmd) = 0
        /\ cert_info.ca # None => n(IsSelfSignedCmd) = 0
        /\ state = "Done" /\ cert_info.ca = None => n(IsSelfSignedCmd) = 1
        /\ state = "Done" /\ cert_info.ca # None =>
               n(IsRequestCmd) = 1 /\ n(IsCASignCmd) = 1

\* a CA descriptor without signing authority, password protected, has been
\* self-signed (the spec's ca1 scenario)
C2_Witness ==
    /\ state = "Done"
    /\ cert_info.is_ca
    /\ cert_info.use_password
    /\ cert_info.ca = None
    /\ \E i \in DOMAIN cmds : IsSelfSignedCmd(cmds[i])

(* C3: when a step fails (openssl exits non-zero, the config file cannot be
   written) the run is Failed at once: the failing transition completes no
   step and leaves every file written before in place with its content, and
   from Failed no step of the run is begun or retried and no file changes. *)
C3_FailureAborts ==
    [][/\ (state # "Failed" /\ state' = "Failed") =>
              /\ steps' = steps
              /\ Len(attempts') = Len(attempts) + 1
              /\ Last(attempts') \notin Range(steps')
              /\ written' = written
              /\ files' = files
              /\ DOMAIN written \subseteq files'
              /\ pc' = "raised"
       /\ (error' # "" /\ pc = "run") => state' = "Failed"
       /\ state = "Failed" =>
              UNCHANGED <<state, attempts, steps, cmds, written, files>>]_vars

\* the request of a CA-signed run has failed after the config file and the
\* key were written
C3_Witness ==
    /\ state = "Failed"
    /\ error = "CalledProcessError"
    /\ steps = <<"Config", "Key">>
    /\ attempts = <<"Config", "Key", "Request">>
    /\ Cardinality(DOMAIN written) = 2

(* C4, as claimed: when a run has failed and the process has ended, every
   descriptor that followed the failed one in its document has been started
   (none is left pending). *)
C4_LaterDescriptorsStarted ==
    (pc \in {"exit", "raised"} /\ state = "Failed") => pending = 0

(* C4, amended: a failure ends the batch.  Once an exception has been raised
   (a failed step, a source that does not load, an entry that is not a valid
   descriptor) the process has left generate_certificates: no run is started
   and no source is opened after it. *)
C4_FailureHaltsBatch ==
    [][error # "" =>
          /\ pc = "raised"
          /\ UNCHANGED <<started, nfile, pending, files>>]_vars

\* a run has failed while a descriptor of its document was still to come
C4_Witness ==
    /\ state = "Failed"
    /\ pc = "raised"
    /\ pending > 0
    /\ started = << <<1, 1>> >>

\* the positions <<file, item>> of the documents of the given lengths, in
\* source order
RECURSIVE PositionsFrom(_, _)
PositionsFrom(lens, f) ==
    IF f > Len(lens) THEN <<>>
    ELSE [k \in 1..lens[f] |-> <<f, k>>] \o PositionsFrom(lens, f + 1)

Positions(lens) == PositionsFrom(lens, 1)

(* C5: runs are started in source order, each descriptor once, and never
   interleaved: the positions started so far are a prefix of the positions
   of the loaded documents in source order; when main returns every
   descriptor of every source has been started exactly once; a run starts
   only when no run is in progress (the previous one is Done), and only the
   run started last takes steps. *)
C5_SourceOrder ==
    /\ [](/\ IsPrefix(started, Positions(lengths))
          /\ pc = "exit" =>
                /\ started = Positions(lengths)
                /\ Len(lengths) = Len(argv))
    /\ [][/\ started' # started =>
                /\ state \in {"Idle", "Done"}
                /\ state' = "Init"
                /\ started' = Append(started, <<nfile, nitem + 1>>)
          /\ (attempts' # attempts /\ started' = started) =>
                /\ pc = "run"
                /\ Last(started) = <<nfile, nitem>>]_vars

\* main has returned after two sources of two descriptors each
C5_Witness ==
    /\ pc = "exit"
    /\ Len(started) >= 4
    /\ started[1] = <<1, 1>>
    /\ started[2] = <<1, 2>>
    /\ started[3] = <<2, 1>>

(* C6: a source that fails to parse halts the whole run: the exception
   leaves main (it is not skipped), no descriptor of that source or of a
   later one has been or is ever started, and no later source is opened. *)
C6_ParseFailureHalts ==
    /\ [](error = "YAMLError" =>
             /\ pc = "raised"
             /\ Len(lengths) = nfile - 1
             /\ \A i \in DOMAIN started : started[i][1] < nfile)
    /\ [][error = "YAMLError" =>
             UNCHANGED <<started, nfile, lengths, pending, files>>]_vars

\* the first of two sources failed to parse
C6_Witness ==
    /\ error = "YAMLError"
    /\ nfile = 1
    /\ Len(argv) = 2

\* the source collection the descriptor of the current run was loaded from
RunSource == argv[Last(started)[1]]

\* the directory that contains that source collection (the working directory
\* for a source named without a directory)
SourceDir ==
    IF dirname(RunSource) = Empty THEN <<".">> ELSE dirname(RunSource)

\* the four suffixes, without their dot
Suffixes == { <<"cnf">>, <<"key">>, <<"csr">>, <<"cert">> }

\* <dir>/<basename>.<suffix>, by plain concatenation
Beside(dir, basename, suffix) == dir \o <<"/">> \o basename \o <<".">> \o suffix

(* C7, as claimed: every file of a run lies in the directory of the
   descriptor's source collection and is named <basename>.<suffix>. *)
C7_InSourceDirectory ==
    state # "Idle" =>
        \A p \in DOMAIN written :
            /\ dirname(p) = SourceDir
            /\ \E x \in Suffixes : p = Beside(SourceDir, cert_info.basename, x)

(* C7, amended: every file a run writes itself or names as the -out of an
   openssl invocation has the path os.path.join(<directory of the source
   collection>, <basename>.<suffix>), suffix one of cnf, key, csr, cert,
   whatever the collection file is called; for a basename without a path
   separator that is <directory>/<basename>.<suffix>, in the directory
   itself.  A self-signed run that is Done has written exactly the cnf, key
   and cert files, and no csr. *)
C7_OutputPaths ==
    state # "Idle" =>
        LET dir == SourceDir
        IN  /\ \A p \in DOMAIN written :
                  /\ \E x \in Suffixes :
                        p = join(dir, cert_info.basename \o <<".">> \o x)
                  /\ p \in files
            /\ "/" \notin Range(cert_info.basename) =>
                  \A p \in DOMAIN written :
                     /\ dirname(p) = dir
                     /\ \E x \in Suffixes :
                           p = Beside(dir, cert_info.basename, x)
            /\ (state = "Done" /\ cert_info.ca = None) =>
                  DOMAIN written =
                      { join(dir, cert_info.basename \o <<".">> \o x) :
                          x \in Suffixes \ { <<"csr">> } }

\* a self-signed run for basename c1, loaded from bar/desc.yaml, is Done
C7_Witness ==
    /\ state = "Done"
    /\ cert_info.ca = None
    /\ cert_info.basename = <<"c1">>
    /\ RunSource = <<"bar", "/", "desc.yaml">>
    /\ DOMAIN written = { <<"bar", "/", "c1", ".", "cnf">>,
                          <<"bar", "/", "c1", ".", "key">>,
                          <<"bar", "/", "c1", ".", "cert">> }

\* the path of the run's private key
KeyPath == join(SourceDir, cert_info.basename \o <<".", "key">>)

(* C8: the key is encrypted if and only if use_password is set: every genrsa
   command line of the run holds -aes256 exactly when use_password, it
   passes pass:<key_password> as -passout, which is the password read when
   use_password; and the key file openssl wrote is encrypted exactly when
   use_password. *)
C8_EncryptedIffPassword ==
    /\ \A i \in DOMAIN cmds :
          cmds[i][2] = <<"genrsa">> =>
             /\ (<<"-", "aes256">> \in Range(cmds[i])) <=> cert_info.use_password
             /\ \E j \in DOMAIN cmds[i] :
                   /\ j > 1
                   /\ cmds[i][j - 1] = <<"-", "passout">>
                   /\ cmds[i][j] = <<"pass:">> \o Str(key_password)
             /\ cert_info.use_password => key_password \in Passwords
    /\ (state # "Idle" /\ KeyPath \in DOMAIN written) =>
          /\ written[KeyPath].pem = "RSA PRIVATE KEY"
          /\ written[KeyPath].encrypted <=> cert_info.use_password

\* a password-protected key has been written
C8_Witness ==
    /\ state \notin {"Idle", "Failed"}
    /\ cert_info.use_password
    /\ KeyPath \in DOMAIN written
    /\ written[KeyPath].encrypted

\* whether string s holds a part of the captured password
HoldsPassword(s) == \E i \in DOMAIN s : s[i] \in Range(key_password)

(* C9: a captured password is found only in the builder's key_password and
   in the value of a -passin or -passout argument: no line of a file the
   run has written holds it, no path does, nothing printed does, and every
   command-line element that holds it is pass:<password> right after
   -passin or -passout. *)
C9_PasswordConfined ==
    key_password # None =>
        /\ \A p \in DOMAIN written :
              /\ ~HoldsPassword(p)
              /\ \A i \in DOMAIN written[p].text :
                    ~HoldsPassword(written[p].text[i])
        /\ \A p \in files : ~HoldsPassword(p)
        /\ \A line \in printed : ~HoldsPassword(line)
        /\ \A i \in DOMAIN cmds : \A j \in DOMAIN cmds[i] :
              HoldsPassword(cmds[i][j]) =>
                 /\ j > 1
                 /\ cmds[i][j - 1] \in { <<"-", "passin">>, <<"-", "passout">> }
                 /\ cmds[i][j] = <<"pass:">> \o key_password

\* a password-protected CA-signed run is Done: the password went to genrsa
\* and to req, the config file is written
C9_Witness ==
    /\ state = "Done"
    /\ key_password \in Passwords
    /\ Len(cmds) = 3
    /\ \E i \in DOMAIN cmds : \E j \in DOMAIN cmds[i] : HoldsPassword(cmds[i][j])
    /\ printed # {}

\* the section headers of a config file
SectionHeaders ==
    { <<"[req]">>, <<"[req_distinguished_name]">>, <<"[v3_extensions]">>,
      <<"[alt_names]">> }

\* the lines of text after the line header up to the next section header
Section(text, header) ==
    LET at   == CHOOSE i \in DOMAIN text : text[i] = header
        next == { j \in DOMAIN text : j > at /\ text[j] \in SectionHeaders }
        stop == IF next = {} THEN Len(text) + 1
                ELSE CHOOSE j \in next : \A k \in next : j <= k
    IN  SubSeq(text, at + 1, stop - 1)

\* the order the claim fixes for the subject keys
ClaimedKeyOrder == <<"C", "ST", "L", "O", "OU", "CN">>

\* the config file the run has written
ConfigPath == join(SourceDir, cert_info.basename \o <<".", "cnf">>)

(* C10: the [req_distinguished_name] section of the rendered config holds
   exactly one line KEY=value for each subject field whose value is not
   empty, no line for a field whose value is empty, nothing else but blank
   lines, and its KEY= lines come in the order C, ST, L, O, OU, CN. *)
C10_SubjectSection ==
    ConfigPath \in DOMAIN written =>
        LET text  == written[ConfigPath].text
            dn    == Section(text, <<"[req_distinguished_name]">>)
            lines == SelectSeq(dn, LAMBDA l : l # <<>>)
            rank(key) == CHOOSE k \in DOMAIN ClaimedKeyOrder :
                             ClaimedKeyOrder[k] = key
        IN  /\ Cardinality({i \in DOMAIN text :
                               text[i] = <<"[req_distinguished_name]">>}) = 1
            /\ \A k \in DOMAIN ClaimedKeyOrder :
                  LET key   == ClaimedKeyOrder[k]
                      value == cert_info[key]
                      its   == {i \in DOMAIN lines : lines[i][1] = key}
                  IN  IF value # <<>>
                      THEN /\ Cardinality(its) = 1
                           /\ \A i \in its : lines[i] = <<key, "=">> \o value
                      ELSE its = {}
            /\ \A i \in DOMAIN lines :
                  /\ lines[i][1] \in Range(ClaimedKeyOrder)
                  /\ \A j \in DOMAIN lines :
                        i < j => rank(lines[i][1]) < rank(lines[j][1])

\* a config rendered for a descriptor with C, O and CN given and ST, L, OU
\* empty
C10_Witness ==
    /\ ConfigPath \in DOMAIN written
    /\ cert_info.C # <<>>
    /\ cert_info.O # <<>>
    /\ cert_info.CN # <<>>
    /\ cert_info.ST = <<>>
    /\ cert_info.L = <<>>
    /\ cert_info.OU = <<>>
    /\ Len(SelectSeq(Section(written[ConfigPath].text,
                             <<"[req_distinguished_name]">>),
                     LAMBDA l : l # <<>>)) = 3

\* the lines of the CA block and of the non-CA block, as the claim gives them
CABlock ==
    << <<"basicConstraints=CA:true">>,
       <<"subjectKeyIdentifier=hash">>,
       <<"authorityKeyIdentifier=keyid:always, issuer">> >>
NonCABlock ==
    << <<"basicConstraints=CA:false">>,
       <<"keyUsage=digitalSignature, nonRepudiation, keyEncipherment">> >>

\* the line that refers to the [alt_names] section
AltNamesReference == <<"subjectAltName=@alt_names">>

\* the number of lines of text that are equal to line
Count(text, line) == Cardinality({i \in DOMAIN text : text[i] = line})

(* C11: the [v3_extensions] section of a rendered config holds exactly one
   of the two blocks: its lines, the blank ones and the reference to
   [alt_names] aside, are the three lines of the CA block when is_ca and the
   two lines of the non-CA block otherwise; no line of the other block is
   found anywhere in the config, and no config is without a block. *)
C11_ExclusiveBlocks ==
    ConfigPath \in DOMAIN written =>
        LET text  == written[ConfigPath].text
            ext   == Section(text, <<"[v3_extensions]">>)
            lines == SelectSeq(ext, LAMBDA l : l # <<>> /\ l # AltNamesReference)
            mine  == IF cert_info.is_ca THEN CABlock ELSE NonCABlock
            other == IF cert_info.is_ca THEN NonCABlock ELSE CABlock
        IN  /\ Count(text, <<"[v3_extensions]">>) = 1
            /\ lines = mine
            /\ \A i \in DOMAIN text : text[i] \notin Range(other)
            /\ \A k \in DOMAIN mine : Count(text, mine[k]) = 1

\* a CA config that also lists alternative names has been rendered
C11_Witness ==
    /\ ConfigPath \in DOMAIN written
    /\ cert_info.is_ca
    /\ Truthy(cert_info.subject_alt_names)
    /\ Count(written[ConfigPath].text, <<"basicConstraints=CA:true">>) = 1

(* C12: for a non-empty subject_alt_names of length n the rendered config
   holds the line subjectAltName=@alt_names once, in [v3_extensions], and one
   [alt_names] section whose lines are exactly DNS.i=<i-th name> for
   i = 1..n in the given order; when subject_alt_names is empty or absent
   the config holds neither that line nor an [alt_names] section nor any
   DNS line. *)
C12_AltNames ==
    ConfigPath \in DOMAIN written =>
        LET text  == written[ConfigPath].text
            names == cert_info.subject_alt_names
        IN  IF names # None /\ names # <<>>
            THEN /\ Count(text, AltNamesReference) = 1
                 /\ Count(Section(text, <<"[v3_extensions]">>),
                          AltNamesReference) = 1
                 /\ Count(text, <<"[alt_names]">>) = 1
                 /\ Section(text, <<"[alt_names]">>) =
                        [i \in 1..Len(names) |->
                            <<"DNS.", ToString(i), "=">> \o names[i]]
            ELSE /\ Count(text, AltNamesReference) = 0
                 /\ Count(text, <<"[alt_names]">>) = 0
                 /\ \A i \in DOMAIN text :
                       text[i] = <<>> \/ text[i][1] # "DNS."

\* a config rendered for two different alternative names
C12_Witness ==
    /\ ConfigPath \in DOMAIN written
    /\ cert_info.subject_alt_names = << <<"alt-1">>, <<"alt-2">> >>
    /\ Section(written[ConfigPath].text, <<"[alt_names]">>) =
           << <<"DNS.", "1", "=", "alt-1">>, <<"DNS.", "2", "=", "alt-2">> >>

\* a config rendered for an empty list of alternative names
C12_WitnessEmpty ==
    /\ ConfigPath \in DOMAIN written
    /\ cert_info.subject_alt_names = <<>>

\* whether the entry has the key
HasKey(dict, key) == \E i \in DOMAIN dict : dict[i][1] = key

\* the descriptor attribute a key names (a dash of the key read as the
\* underscore of the attribute)
Attribute(info, key) ==
    LET name == [i \in DOMAIN key |-> IF key[i] = "-" THEN "_" ELSE key[i]]
    IN  CASE name = <<"basename">> -> info.basename
          [] name = <<"C">> -> info.C
          [] name = <<"ST">> -> info.ST
          [] name = <<"L">> -> info.L
          [] name = <<"O">> -> info.O
          [] name = <<"OU">> -> info.OU
          [] name = <<"CN">> -> info.CN
          [] name = <<"subject", "_", "alt", "_", "names">> -> info.subject_alt_names
          [] name = <<"is", "_", "ca">> -> info.is_ca
          [] name = <<"ca">> -> info.ca
          [] name = <<"key", "_", "size">> -> info.key_size
          [] name = <<"expiration", "_", "days">> -> info.expiration_days
          [] name = <<"use", "_", "password">> -> info.use_password

(* C13: the descriptor from_dict builds for an entry is in CA mode if and
   only if the entry has the key type with the value "ca" (any other value,
   or no type key, gives a non-CA descriptor); every other key of the entry
   is found as the value of the attribute it names, and an attribute no key
   names has its default: key_size 2048, expiration_days 10000,
   use_password false, no signing authority. *)
C13_TypeAloneSetsCA ==
    (state = "Init" /\ item # <<>>) =>
        /\ cert_info.is_ca <=> \E i \in DOMAIN item :
                                  item[i] = << <<"type">>, <<"ca">> >>
        /\ \A i \in DOMAIN item :
              item[i][1] \notin { <<"type">>, <<"is", "_", "ca">> } =>
                  Attribute(cert_info, item[i][1]) = item[i][2]
        /\ (~HasKey(item, <<"key", "_", "size">>)
            /\ ~HasKey(item, <<"key", "-", "size">>)) => cert_info.key_size = 2048
        /\ ~HasKey(item, <<"expiration", "_", "days">>) =>
              cert_info.expiration_days = 10000
        /\ ~HasKey(item, <<"use", "_", "password">>) => cert_info.use_password = FALSE
        /\ ~HasKey(item, <<"ca">>) => cert_info.ca = None

\* the positions of step in the sequence s of steps
At(s, step) == {i \in DOMAIN s : s[i] = step}

(* C14, as claimed: the password is read after the config file has been
   written and before key generation is invoked, once per run: whenever the
   reading of the password has begun, the config step has completed before
   it and the run has been in ConfigWritten; no password is read when
   use_password is not set. *)
C14_PasswordAfterConfig ==
    state # "Idle" =>
        /\ \A i \in At(attempts, "Password") :
              /\ \E j \in At(attempts, "Config") : j < i
              /\ "Config" \in Range(steps)
              /\ \A j \in At(attempts, "Key") : i < j
        /\ Cardinality(At(attempts, "Password")) <= 1
        /\ ~cert_info.use_password => At(attempts, "Password") = {}

(* C14, amended: when use_password is set the password is read as the first
   action of the run, in Init, before the config file is written and before
   key generation is invoked, once per run: the reading is the first step
   begun and no other, the config file is written and openssl is invoked
   only after it has completed, and a run whose reading fails has written
   no file.  When use_password is not set no password is read at any point
   of the run. *)
C14_PasswordFirst ==
    state # "Idle" =>
        /\ cert_info.use_password =>
              /\ At(attempts, "Password") \subseteq {1}
              /\ attempts # <<>> => attempts[1] = "Password"
              /\ Len(attempts) > 1 =>
                    /\ steps # <<>>
                    /\ steps[1] = "Password"
                    /\ key_password \in Passwords
              /\ (written # NoFiles \/ cmds # <<>>) => key_password \in Passwords
              /\ state = "Init" \/ Len(attempts) > 1 \/ attempts = <<>>
                 \/ (state = "Failed" /\ written = NoFiles /\ cmds = <<>>)
        /\ ~cert_info.use_password =>
              /\ At(attempts, "Password") = {}
              /\ At(steps, "Password") = {}
              /\ key_password = None

\* the config file of a password-protected run has been written, after the
\* password was read
C14_Witness ==
    /\ state = "ConfigWritten"
    /\ cert_info.use_password
    /\ attempts = <<"Password", "Config">>
    /\ steps = attempts
    /\ key_password \in Passwords

\* whether the command line is one of the three steps that take the key's
\* password: key generation, request generation, self-signed issuance
TakesPassword(cmd) == cmd[2] = <<"genrsa">> \/ cmd[2] = <<"req">>

\* the values the command line passes as -passin or -passout
PassValues(cmd) ==
    { cmd[j] : j \in { k \in DOMAIN cmd :
                          /\ k > 1
                          /\ cmd[k - 1] \in { <<"-", "passin">>,
                                              <<"-", "passout">> } } }

(* C15: in key generation, request generation and self-signed issuance the
   captured password is passed to openssl when one was captured in this
   run, and no password value is passed when none was captured: the command
   line then holds no -passin or -passout value. *)
C15_PasswordOnlyWhenCaptured ==
    \A i \in DOMAIN cmds :
        TakesPassword(cmds[i]) =>
            IF key_password # None
            THEN PassValues(cmds[i]) = { <<"pass:">> \o key_password }
            ELSE PassValues(cmds[i]) = {}

\* <base_dir>/<name>: the name resolved against the directory of the run's
\* source collection, as os.path.join resolves it
InBase(name) == join(SourceDir, name)

\* <basename>.<suffix> of the run's descriptor
Named(suffix) == cert_info.basename \o <<".">> \o suffix

(* C16: on the CA-signed path the request step names <base_dir>/
   <basename>.csr as its output and <basename>.key and <basename>.cnf, both
   written by the run before, as its key and config; the signing step comes
   right after the request step, only once that step has succeeded and
   written the request, reads that same .csr, names <base_dir>/
   <authority>.cert and <base_dir>/<authority>.key as the authority's
   certificate and key and <basename>.cnf as the extension file, asks for
   the serial file to be created, sets the validity to expiration_days and
   writes <base_dir>/<basename>.cert. *)
C16_RequestThenSign ==
    (state # "Idle" /\ cmds # <<>>) =>
        LET csr  == InBase(Named(<<"csr">>))
            key  == InBase(Named(<<"key">>))
            cnf  == InBase(Named(<<"cnf">>))
            cert == InBase(Named(<<"cert">>))
        IN  \A i \in DOMAIN cmds :
            /\ IsRequestCmd(cmds[i]) =>
                  /\ OptValue(cmds[i], <<"out">>) = csr
                  /\ OptValue(cmds[i], <<"key">>) = key
                  /\ OptValue(cmds[i], <<"config">>) = cnf
                  /\ key \in DOMAIN written
                  /\ cnf \in DOMAIN written
            /\ IsCASignCmd(cmds[i]) =>
                  /\ i > 1
                  /\ IsRequestCmd(cmds[i - 1])
                  /\ "Request" \in Range(steps)
                  /\ OptValue(cmds[i], <<"in">>) = OptValue(cmds[i - 1], <<"out">>)
                  /\ OptValue(cmds[i], <<"in">>) = csr
                  /\ csr \in DOMAIN written
                  /\ written[csr].pem = "CERTIFICATE REQUEST"
                  /\ OptValue(cmds[i], <<"CA">>) =
                         InBase(cert_info.ca \o <<".", "cert">>)
                  /\ OptValue(cmds[i], <<"CAkey">>) =
                         InBase(cert_info.ca \o <<".", "key">>)
                  /\ OptValue(cmds[i], <<"extfile">>) = cnf
                  /\ HasOpt(cmds[i], <<"CAcreateserial">>)
                  /\ OptValue(cmds[i], <<"days">>) =
                         <<ToString(cert_info.expiration_days)>>
                  /\ OptValue(cmds[i], <<"out">>) = cert
                  /\ state = "Done" =>
                        /\ cert \in DOMAIN written
                        /\ written[cert].pem = "CERTIFICATE"

\* a run for c1 signed by the authority ca, loaded from bar/desc.yaml, is
\* Done: the request was written to bar/c1.csr and signed with bar/ca.cert
C16_Witness ==
    /\ state = "Done"
    /\ cert_info.ca = <<"ca">>
    /\ RunSource = <<"bar", "/", "desc.yaml">>
    /\ Len(cmds) = 3
    /\ OptValue(cmds[2], <<"out">>) = <<"bar", "/", "c1", ".", "csr">>
    /\ OptValue(cmds[3], <<"in">>) = <<"bar", "/", "c1", ".", "csr">>
    /\ OptValue(cmds[3], <<"CA">>) = <<"bar", "/", "ca", ".", "cert">>
    /\ OptValue(cmds[3], <<"CAkey">>) = <<"bar", "/", "ca", ".", "key">>

\* the textual form of an argument: the digits of an int, a string itself
Text(v) == IF v[1] = "int" THEN <<ToString(v[2])>> ELSE v[2]

(* C17: the command line built for a call is the invocation name openssl,
   then the first positional argument if there is one, then -<flag> for
   each flag in the caller's order, then -<name> and <value> for each
   option with a value in mapping order, then the positional arguments
   after the first in their order; every element is the textual form of its
   value, and the length is 1 + positionals + flags + 2 * options. *)
C17_CommandLineLayout ==
    cmds # <<>> =>
        LET line == cmds[1]
            pos  == call.pos_args
            flag == call.opts
            opt  == call.opts_with_values
            sub  == IF Len(pos) > 0 THEN 1 ELSE 0
            base == 1 + sub + Len(flag)
        IN  /\ Len(line) = 1 + Len(pos) + Len(flag) + 2 * Len(opt)
            /\ line[1] = <<"openssl">>
            /\ Len(pos) > 0 => line[2] = Text(pos[1])
            /\ \A k \in DOMAIN flag : line[1 + sub + k] = <<"-">> \o Text(flag[k])
            /\ \A k \in DOMAIN opt :
                  /\ line[base + 2 * k - 1] = <<"-">> \o opt[k][1]
                  /\ line[base + 2 * k] = Text(opt[k][2])
            /\ \A k \in 2..Len(pos) :
                  line[base + 2 * Len(opt) + k - 1] = Text(pos[k])

\* a command line built from two positional arguments, one of them an int,
\* two flags and two options with values
C17_Witness ==
    /\ cmds # <<>>
    /\ call.pos_args = << PyStr(<<"genrsa">>), PyInt(2048) >>
    /\ Len(call.opts) = 2
    /\ Len(call.opts_with_values) = 2
    /\ Len(cmds[1]) = 9
    /\ cmds[1][9] = <<"2048">>

\* a source could not be read or parsed (a run that fails is Failed)
LoadFailed == error \in {"IOError", "YAMLError"} /\ state # "Failed"

(* C18: the sources are loaded one at a time: a source is opened only when
   every descriptor of the sources opened before has been started and the
   run started last is Done, a run is started only when the run before it is
   Done, and no file once written disappears.  Hence when the k-th source
   cannot be read or parsed the sources 1..k-1 are the ones loaded, every
   one of their descriptors has been started, no run is in progress or has
   failed, and the files of the last run are on disk. *)
C18_LazyLoading ==
    /\ [][/\ nfile' # nfile =>
                /\ nfile' = nfile + 1
                /\ pending = 0
                /\ pc = "loop"
                /\ state \in {"Idle", "Done"}
                /\ started = Positions(lengths)
                /\ Len(lengths) = nfile
          /\ started' # started => state \in {"Idle", "Done"}
          /\ files \subseteq files']_vars
    /\ [](LoadFailed =>
             /\ pc = "raised"
             /\ Len(lengths) = nfile - 1
             /\ started = Positions(lengths)
             /\ state \in {"Idle", "Done"}
             /\ started # <<>> =>
                   /\ state = "Done"
                   /\ Cardinality(DOMAIN written) >= 3
                   /\ DOMAIN written \subseteq files)

\* the second source could not be parsed after the two descriptors of the
\* first had been generated
C18_Witness ==
    /\ LoadFailed
    /\ nfile = 2
    /\ started = << <<1, 1>>, <<1, 2>> >>
    /\ state = "Done"
    /\ files # {}

(* C19: a run starts with no captured password, and a password is supplied
   only to invocations of the run that captured it: key_password changes
   only by being None when a run starts or by being read in the run in
   progress, before any invocation; a run without use_password never holds
   a password; and every password an invocation of the run is given is the
   one the run itself has read. *)
C19_PasswordPerRun ==
    /\ [][/\ started' # started => key_password' = None /\ cmds' = <<>>
          /\ key_password' # key_password =>
                \/ started' # started
                \/ /\ started' = started
                   /\ cert_info.use_password
                   /\ key_password = None
                   /\ key_password' \in Passwords
                   /\ cmds = <<>>
                   /\ attempts' = <<"Password">>]_vars
    /\ [](/\ (state # "Idle" /\ ~cert_info.use_password) => key_password = None
          /\ \A i \in DOMAIN cmds : \A pw \in Passwords :
                (\E j \in DOMAIN cmds[i] : Range(pw) \subseteq Range(cmds[i][j])) =>
                    /\ cert_info.use_password
                    /\ pw = key_password
                    /\ steps[1] = "Password")

\* the second run of a batch, for a descriptor without password, has invoked
\* openssl after a password was read for the first
C19_Witness ==
    /\ Len(started) = 2
    /\ ~cert_info.use_password
    /\ printed # {}
    /\ key_password = None
    /\ Len(cmds) >= 2

=============================================================================
